---- MODULE Spec2Model ----
(***************************************************************************)
(* Model of the message-relay bot of src/main.py: the per-user sliding     *)
(* window rate limiter (is_rate_limited), the completion call under a      *)
(* deadline (get_llm_response) and the handler that composes them          *)
(* (process_message).  Handlers are asyncio coroutines on one event loop:  *)
(* code between two awaits runs as one atomic step, so every action below  *)
(* runs from one suspension point of a handler to the next.                *)
(***************************************************************************)
EXTENDS Integers, Sequences, FiniteSets

\* ---------------------------------------------------------------- bounds
\* Number of inbound text messages handled in one run.
MaxInv == 4
\* Last clock value (seconds) at which get_llm_response is still entered
\* early enough for its deadline to fall inside the modelled time line.
MaxClock == 120

\* ------------------------------------------------------ program constants
\* CONFIG["RATE_LIMIT"]
RATE_LIMIT == 3
\* CONFIG["REQUEST_TIMEOUT"], seconds
REQUEST_TIMEOUT == 30
\* timedelta(minutes=1), seconds
WINDOW == 60

Users == {"u1", "u2"}
Inv == 1..MaxInv

\* Clock values (seconds) at which the environment lets something happen:
\* the multiples of the deadline, so that a recorded request is seen at the
\* ages 0, 30, 60 (the edge of the window), 90 and 120 seconds and every
\* deadline falls on an instant.
Instants == {t \in 0..MaxClock : t % REQUEST_TIMEOUT = 0}

\* ------------------------------------------------------------ data values
\* The four return sites of get_llm_response carry fixed user-visible texts
\* (lines 55, 68, 71); line 65 returns whatever the upstream sent.
RateLimitText == "too many requests"
TimeoutText   == "timed out"
ErrorText     == "request failed"

\* Python's None as the value of message['content'].
None == "<None>"

\* Upstream responses: response.choices is a list of choices, each with a
\* message dict that may or may not have the key 'content'.
Messages == { [role |-> "assistant"],
              [role |-> "assistant", content |-> "hello"],
              [role |-> "assistant", content |-> ""],
              [role |-> "assistant", content |-> None] }

Responses == { [choices |-> <<>>] }
             \cup { [choices |-> <<m>>] : m \in Messages }
             \cup { [choices |-> <<[role |-> "assistant", content |-> "hello"],
                                   [role |-> "assistant", content |-> "world"]>>] }

\* Details carried by a fault of the upstream call (str(e)).
FaultDetails == {"connection reset"}

\* Exception classes that reach the try block of get_llm_response.
\* asyncio.TimeoutError and the client's and Python's lookup errors derive
\* from Exception; asyncio.CancelledError derives from BaseException only.
ExceptionSubclasses == {"TimeoutError", "APIError", "IndexError", "KeyError"}

Return(tag, text) == [kind |-> "return", tag |-> tag, text |-> text]
Raise(cls, detail) == [kind |-> "raise", cls |-> cls, detail |-> detail]
Pending == [kind |-> "pending"]

VARIABLES
  clock,          \* datetime.now(), seconds
  user_requests,  \* user_requests: user id -> list of timestamps
  n,              \* number of invocations of get_llm_response so far
  user,           \* user_id of invocation i
  pc,             \* where invocation i is
  chk,            \* the admission check made by invocation i
  calls,          \* upstream calls started by invocation i
  abandoned,      \* upstream calls abandoned at their deadline whose result
                  \* has not arrived yet
  returned        \* the latest exit of get_llm_response: what ended its
                  \* await (nothing, on the path of line 55) and what its
                  \* caller got

vars == <<clock, user_requests, n, user, pc, chk, calls, abandoned, returned>>

NoCheck == [verdict |-> "none", at |-> 0]
NoEvent == [kind |-> "none"]

Init ==
  /\ clock = 0
  /\ user_requests = [u \in Users |-> <<>>]
  /\ n = 0
  /\ user = [i \in Inv |-> "nobody"]
  /\ pc = [i \in Inv |-> "idle"]
  /\ chk = [i \in Inv |-> NoCheck]
  /\ calls = [i \in Inv |-> 0]
  /\ abandoned = 0
  /\ returned = [ev |-> NoEvent, out |-> Pending]

\* --------------------------------------------------------- is_rate_limited
\* Mutant of Fresh: the window is two minutes long.
FreshTwoMinutes(req, now) == req > now - 2 * WINDOW

\* Mutant of Fresh: a request of age exactly one minute is kept.
FreshClosed(req, now) == req >= now - WINDOW

\* Line 44: a recorded request is kept iff req > now - timedelta(minutes=1).
Fresh(req, now) == req > now - WINDOW

\* Mutant of Prune: nothing is dropped.
PruneNever(log, now) == log

\* Lines 42-45: the list comprehension that rebuilds the user's list.
Prune(log, now) == SelectSeq(log, LAMBDA req : Fresh(req, now))

\* Mutant of Limited: the comparison off by one.
LimitedOffByOne(log) == Len(log) > RATE_LIMIT

\* Line 46: len(user_requests[user_id]) >= CONFIG["RATE_LIMIT"].
Limited(log) == Len(log) >= RATE_LIMIT

\* Mutant of Record: the admitted request is not in the list when the next
\* check reads it.
RecordLater(log, now) == log

\* Mutant of Record: the request is put at the front of the list.
RecordFront(log, now) == <<now>> \o log

\* Line 48: user_requests[user_id].append(now).
Record(log, now) == Append(log, now)

\* Mutant of StoreLog: one list is shared by all users.
StoreLogShared(logs, u, log) == [v \in Users |-> log]

\* Lines 42 and 48: user_requests[user_id] is the only entry assigned.
StoreLog(logs, u, log) == [logs EXCEPT ![u] = log]

\* Mutant of is_rate_limited: the attempt is recorded before the comparison.
is_rate_limited_records_first(log, now) ==
  LET kept == Record(Prune(log, now), now)
  IN  [limited |-> Len(kept) > RATE_LIMIT, log |-> kept]

\* Lines 39-49 on one user's list: the verdict and the list left behind.
is_rate_limited(log, now) ==
  LET kept == Prune(log, now)
  IN  IF Limited(kept)
        THEN [limited |-> TRUE, log |-> kept]
        ELSE [limited |-> FALSE, log |-> Record(kept, now)]

\* -------------------------------------------------------- get_llm_response
\* Mutant of CallsStarted: the call is started whatever the check said.
CallsStartedAnyway(limited) == 1

\* Lines 54-57: the upstream call is started only on the path on which the
\* check did not return.
CallsStarted(limited) == IF limited THEN 0 ELSE 1

\* Mutant of Extract: the last choice is taken instead of the first.
ExtractLast(resp) ==
  IF Len(resp.choices) = 0
    THEN Raise("IndexError", "list index out of range")
    ELSE IF "content" \notin DOMAIN resp.choices[Len(resp.choices)]
           THEN Raise("KeyError", "content")
           ELSE Return("Success", resp.choices[Len(resp.choices)].content)

\* Line 65: response.choices[0].message['content'].
Extract(resp) ==
  IF Len(resp.choices) = 0
    THEN Raise("IndexError", "list index out of range")
    ELSE IF "content" \notin DOMAIN resp.choices[1]
           THEN Raise("KeyError", "content")
           ELSE Return("Success", resp.choices[1].content)

\* Mutant of ErrorReply: the text of the exception is returned.
ErrorReplyWithDetail(detail) == detail

\* Line 71: the text returned by the generic handler; str(e) is only logged.
ErrorReply(detail) == ErrorText

\* Mutant of Handle: the generic clause is tried first.
HandleGenericFirst(exc) ==
  IF exc.cls \in ExceptionSubclasses
    THEN Return("UpstreamError", ErrorReply(exc.detail))
    ELSE exc

\* Lines 66-71: the except clauses, tried in order, on an exception raised
\* inside the try block; an exception neither clause matches propagates.
Handle(exc) ==
  IF exc.cls = "TimeoutError"
    THEN Return("TimedOut", TimeoutText)
    ELSE IF exc.cls \in ExceptionSubclasses
           THEN Return("UpstreamError", ErrorReply(exc.detail))
           ELSE exc

\* Lines 57-71: what the invocation gives its caller once the await of
\* line 57 is over, given what ended it.
AfterAwait(ev) ==
  IF ev.kind = "response"
    THEN LET r == Extract(ev.resp)
         IN  IF r.kind = "raise" THEN Handle(r) ELSE r
    ELSE IF ev.kind = "fault"
           THEN Handle(Raise(ev.cls, ev.detail))
           ELSE IF ev.kind = "deadline"
                  THEN Handle(Raise("TimeoutError", ""))
                  ELSE Handle(Raise("CancelledError", ""))

\* Mutant of Retries: a failed call is tried once more.
RetriesOnFailure(ev) == IF ev.kind \in {"fault", "deadline"} THEN 1 ELSE 0

\* Lines 65-71: every path after the await returns (or propagates); none
\* starts another upstream call.
Retries(ev) == 0

\* Mutant of LogOnExit: the admission of a failed call is taken back.
LogOnExitRollback(log, at, ev) ==
  IF ev.kind \in {"fault", "deadline"}
    THEN SelectSeq(log, LAMBDA req : req # at)
    ELSE log

\* Lines 65-71: no path after the await touches user_requests.
LogOnExit(log, at, ev) == log

\* Mutant of Discard: the late result replaces what the caller was given.
DeliverLate(ret, ev) == [ev |-> ev, out |-> AfterAwait(ev)]

\* Line 57: asyncio.wait_for has cancelled the call it abandoned, so a
\* result of that call arriving later reaches nobody.
Discard(ret, ev) == ret

\* Mutant of Deadline: the deadline is longer than the window.
DeadlineLong(i) == chk[i].at + 3 * REQUEST_TIMEOUT

\* The deadline armed by asyncio.wait_for at line 57.
Deadline(i) == chk[i].at + REQUEST_TIMEOUT

\* ----------------------------------------------------------------- actions
\* process_message, started for a message of user u, has sent its notice
\* (line 104, which touches nothing modelled here) and invokes
\* get_llm_response (line 106): the admission check and, when it admits,
\* the start of the upstream call under the deadline, up to the suspension
\* at line 57; when it rejects, the return of line 55.
EnterGetLlmResponse(u) ==
  /\ n < MaxInv
  /\ clock + REQUEST_TIMEOUT <= MaxClock
  /\ n' = n + 1
  /\ user' = [user EXCEPT ![n + 1] = u]
  /\ LET r == is_rate_limited(user_requests[u], clock)
         i == n + 1
     IN  /\ user_requests' = StoreLog(user_requests, u, r.log)
         /\ chk' = [chk EXCEPT ![i] =
                      [verdict |-> IF r.limited THEN "reject" ELSE "admit",
                       at |-> clock]]
         /\ calls' = [calls EXCEPT ![i] = @ + CallsStarted(r.limited)]
         /\ IF r.limited
              THEN /\ returned' = [ev |-> NoEvent,
                                   out |-> Return("RateLimited", RateLimitText)]
                   /\ pc' = [pc EXCEPT ![i] = "done"]
              ELSE /\ returned' = returned
                   /\ pc' = [pc EXCEPT ![i] = "upstream"]
  /\ UNCHANGED <<clock, abandoned>>

\* The await of line 57 ends with event ev: the invocation returns an
\* outcome to process_message, or an exception leaves it.
EndAwait(i, ev) ==
  /\ returned' = [ev |-> ev, out |-> AfterAwait(ev)]
  /\ pc' = [pc EXCEPT ![i] =
              IF AfterAwait(ev).kind = "return" THEN "done" ELSE "raised"]
  /\ abandoned' = IF ev.kind = "deadline" THEN abandoned + 1 ELSE abandoned
  /\ calls' = [calls EXCEPT ![i] = @ + Retries(ev)]
  /\ user_requests' = [user_requests EXCEPT ![user[i]] =
                          LogOnExit(@, chk[i].at, ev)]
  /\ UNCHANGED <<clock, n, user, chk>>

\* The upstream sends a response before the deadline.
UpstreamResponds(i, resp) ==
  /\ pc[i] = "upstream"
  /\ clock < Deadline(i)
  /\ EndAwait(i, [kind |-> "response", resp |-> resp])

\* The upstream call raises a client fault before the deadline.
UpstreamFails(i, detail) ==
  /\ pc[i] = "upstream"
  /\ clock < Deadline(i)
  /\ EndAwait(i, [kind |-> "fault", cls |-> "APIError", detail |-> detail])

\* The timer of asyncio.wait_for fires: the call is cancelled and
\* asyncio.TimeoutError is raised at line 57.
DeadlineFires(i) ==
  /\ pc[i] = "upstream"
  /\ clock >= Deadline(i)
  /\ EndAwait(i, [kind |-> "deadline"])

\* The awaited call is cancelled before the deadline:
\* asyncio.CancelledError is raised at line 57.
CallCancelled(i) ==
  /\ pc[i] = "upstream"
  /\ clock < Deadline(i)
  /\ EndAwait(i, [kind |-> "cancelled"])

\* The response or the fault of a call abandoned at the deadline arrives
\* after TimedOut was returned.
LateArrival(ev) ==
  /\ abandoned > 0
  /\ abandoned' = abandoned - 1
  /\ returned' = Discard(returned, ev)
  /\ UNCHANGED <<clock, user_requests, n, user, pc, chk, calls>>

\* Time passes, to a later instant.  A
\* timer of the event loop that is due fires before the clock moves past it.
Tick(t) ==
  /\ t > clock
  /\ \A i \in Inv : pc[i] = "upstream" => t <= Deadline(i)
  /\ clock' = t
  /\ UNCHANGED <<user_requests, n, user, pc, chk, calls, abandoned, returned>>

Next ==
  \/ \E u \in Users : EnterGetLlmResponse(u)
  \/ \E i \in Inv : \E resp \in Responses : UpstreamResponds(i, resp)
  \/ \E i \in Inv : \E d \in FaultDetails : UpstreamFails(i, d)
  \/ \E i \in Inv : DeadlineFires(i)
  \/ \E i \in Inv : CallCancelled(i)
  \/ \E resp \in Responses :
       LateArrival([kind |-> "response", resp |-> resp])
  \/ \E t \in Instants : Tick(t)

Spec == Init /\ [][Next]_vars

\* The event loop keeps running: time passes and a due timer is fired.
LiveSpec ==
  /\ Spec
  /\ WF_vars(\E t \in Instants : Tick(t))
  /\ \A i \in Inv : WF_vars(DeadlineFires(i))

\* ------------------------------------------------------------------ claims
\* The admitted invocations of user u.
Admitted(u) == {i \in Inv : user[i] = u /\ chk[i].verdict = "admit"}

\* C1: among any RATE_LIMIT+1 admitted checks of one user, the first and
\* the last are at least 60 seconds apart, so no half-open 60-second window
\* holds more than RATE_LIMIT admissions.
C1_WindowCap ==
  \A u \in Users : \A S \in SUBSET Admitted(u) :
    Cardinality(S) = RATE_LIMIT + 1 =>
      \E i \in S : \E j \in S : chk[j].at - chk[i].at >= WINDOW

\* C1 witness: some user has had RATE_LIMIT+1 checks admitted.
C1_Witness == \E u \in Users : Cardinality(Admitted(u)) >= RATE_LIMIT + 1

\* C2: with invocations of one user overlapping at their awaits, every
\* admission is in the user's list before any other invocation checks it:
\* the list holds exactly one fresh entry per admitted invocation whose
\* timestamp is fresh, and never more than RATE_LIMIT of them.
C2_ExactUnderOverlap ==
  \A u \in Users :
    LET fresh == {i \in Admitted(u) : Fresh(chk[i].at, clock)}
    IN  /\ Len(Prune(user_requests[u], clock)) = Cardinality(fresh)
        /\ Cardinality(fresh) <= RATE_LIMIT

\* C2 witness: RATE_LIMIT invocations of one user are suspended at their
\* upstream calls at once and a further check of that user at the same
\* instant was rejected.
C2_Witness ==
  \E u \in Users :
    /\ Cardinality({i \in Inv : user[i] = u /\ pc[i] = "upstream"}) = RATE_LIMIT
    /\ \E j \in Inv : /\ user[j] = u
                      /\ chk[j].verdict = "reject"
                      /\ chk[j].at = clock

\* C3: a rejected invocation has started no upstream call and is over, and
\* an upstream call is started only by an invocation whose check admitted.
C3_RejectShortCircuits ==
  \A i \in Inv :
    /\ chk[i].verdict = "reject" => calls[i] = 0 /\ pc[i] = "done"
    /\ calls[i] > 0 => chk[i].verdict = "admit"

\* C3 witness: an invocation was rejected and returned RateLimited while
\* another one of the same user is at its upstream call.
C3_Witness ==
  \E i \in Inv : \E j \in Inv :
    /\ chk[i].verdict = "reject"
    /\ returned.out = Return("RateLimited", RateLimitText)
    /\ user[j] = user[i]
    /\ pc[j] = "upstream"
    /\ calls[j] = 1

C5_EventuallyReturns ==
  \A i \in Inv : (pc[i] = "upstream") ~> (pc[i] = "done")

\* The part of C5 about waiting: no invocation stays at its await for ever.
AwaitEnds ==
  \A i \in Inv : (pc[i] = "upstream") ~> (pc[i] # "upstream")

Outcomes == {"Success", "RateLimited", "TimedOut", "UpstreamError"}

\* C6: whatever the upstream does, get_llm_response never raises to its
\* caller: every exit is the return of one of the four outcomes.
C6_NeverRaises ==
  /\ \A i \in Inv : pc[i] # "raised"
  /\ returned.out.kind \in {"pending", "return"}
  /\ returned.out.kind = "return" => returned.out.tag \in Outcomes

\* C7: a fault of the upstream call gives UpstreamError: it does not
\* propagate, is not TimedOut, and the returned text is the fixed one, not
\* the detail of the fault.
C7_FaultGivesUpstreamError ==
  returned.ev.kind = "fault" =>
    /\ returned.out = Return("UpstreamError", ErrorText)
    /\ returned.out.text # returned.ev.detail

\* C7 witness: an upstream call has raised a fault and the invocation
\* returned UpstreamError.
C7_Witness ==
  /\ returned.ev.kind = "fault"
  /\ returned.ev.detail \in FaultDetails
  /\ returned.out.kind = "return"
  /\ returned.out.tag = "UpstreamError"

\* A response with no choice, without the content field, or whose
\* completion text is empty or null.
Malformed(resp) ==
  \/ Len(resp.choices) = 0
  \/ "content" \notin DOMAIN resp.choices[1]
  \/ resp.choices[1].content \in {"", None}

\* C8: a malformed or empty response that arrives before the deadline
\* gives UpstreamError, never Success.
C8_MalformedGivesUpstreamError ==
  (returned.ev.kind = "response" /\ Malformed(returned.ev.resp)) =>
    /\ returned.out.kind = "return"
    /\ returned.out.tag = "UpstreamError"

\* C9: a well-formed response that arrives before the deadline gives
\* Success with exactly the content of the first choice.
C9_SuccessCarriesFirstChoice ==
  (returned.ev.kind = "response" /\ ~Malformed(returned.ev.resp)) =>
    returned.out = Return("Success", returned.ev.resp.choices[1].content)

\* C9 witness: a response with two different choices has been returned as
\* Success.
C9_Witness ==
  /\ returned.ev.kind = "response"
  /\ Len(returned.ev.resp.choices) = 2
  /\ returned.ev.resp.choices[1] # returned.ev.resp.choices[2]
  /\ returned.out.kind = "return"
  /\ returned.out.tag = "Success"

\* C10: a check of user u at time now is rejected if and only if at least
\* RATE_LIMIT earlier checks of u were admitted at times strictly newer
\* than now - 60.
C10_DecisionExact ==
  [][n' = n + 1 =>
       LET i == n'
           recent == {j \in 1..n : /\ user[j] = user'[i]
                                   /\ chk[j].verdict = "admit"
                                   /\ chk[j].at > clock - WINDOW}
       IN  /\ chk'[i].at = clock
           /\ chk'[i].verdict = "reject" <=> Cardinality(recent) >= RATE_LIMIT
           /\ chk'[i].verdict = "admit" <=> Cardinality(recent) < RATE_LIMIT]_vars

\* C10 witness: a burst of RATE_LIMIT+1 checks of one user at one instant,
\* the user's first ones: the first RATE_LIMIT are admitted, the last is
\* rejected.
C10_Witness ==
  \E u \in Users :
    /\ \A i \in 1..(RATE_LIMIT + 1) : user[i] = u /\ chk[i].at = clock
    /\ \A i \in 1..RATE_LIMIT : chk[i].verdict = "admit"
    /\ chk[RATE_LIMIT + 1].verdict = "reject"

\* ------------------------------------------- claims on the request list
\* The step is an admission check: invocation n' is the one that checks.
IsCheck == n' = n + 1

\* The entries of a list whose age at the clock is less than the window.
Unexpired(log) == SelectSeq(log, LAMBDA req : clock - req < WINDOW)

C12_HalfOpenWindow ==
  [][IsCheck =>
       LET u == user'[n']
           old == user_requests[u]
           new == user_requests'[u]
       IN  /\ \A k \in 1..Len(new) : clock - new[k] < WINDOW
           /\ \A k \in 1..Len(old) :
                clock - old[k] < WINDOW => \E m \in 1..Len(new) : new[m] = old[k]
           /\ chk'[n'].verdict = "reject" <=>
                Cardinality({k \in 1..Len(old) : clock - old[k] < WINDOW})
                  >= RATE_LIMIT]_vars

\* C12 witness: RATE_LIMIT admissions of a user are exactly 60 seconds old
\* when the user's next check is made; it is admitted and only its own
\* timestamp is left.
C12_Witness ==
  \E u \in Users :
    /\ \A i \in 1..RATE_LIMIT :
         user[i] = u /\ chk[i].verdict = "admit" /\ chk[i].at = clock - WINDOW
    /\ user[RATE_LIMIT + 1] = u
    /\ chk[RATE_LIMIT + 1] = [verdict |-> "admit", at |-> clock]
    /\ user_requests[u] = <<clock>>

\* C13: a rejecting check leaves exactly the unexpired timestamps and adds
\* nothing; an admitting check leaves them followed by one entry, now.
C13_RejectRecordsNothing ==
  [][IsCheck =>
       LET u == user'[n']
           kept == Unexpired(user_requests[u])
       IN  /\ chk'[n'].verdict \in {"admit", "reject"}
           /\ chk'[n'].verdict = "reject" => user_requests'[u] = kept
           /\ chk'[n'].verdict = "admit" =>
                user_requests'[u] = Append(kept, clock)]_vars

\* C13 witness: the latest check was rejected and the list holds only
\* earlier timestamps.
C13_Witness ==
  /\ n >= 1
  /\ chk[n] = [verdict |-> "reject", at |-> clock]
  /\ Len(user_requests[user[n]]) = RATE_LIMIT
  /\ \A k \in 1..Len(user_requests[user[n]]) : user_requests[user[n]][k] < clock

\* C14 as stated: in every reachable state every recorded timestamp is
\* less than 60 seconds old.
C14_AlwaysFresh ==
  \A u \in Users : \A k \in 1..Len(user_requests[u]) :
    clock - user_requests[u][k] < WINDOW

\* The time of the latest check of user u (0 when there is none).
LastCheck(u) ==
  LET ts == {chk[i].at : i \in {j \in Inv : user[j] = u}}
  IN  IF ts = {} THEN 0 ELSE CHOOSE t \in ts : \A x \in ts : x <= t

\* C14 amended: every recorded timestamp of a user was less than 60 seconds
\* old at that user's latest admission check.
C14_FreshAtLastCheck ==
  \A u \in Users : \A k \in 1..Len(user_requests[u]) :
    /\ LastCheck(u) - user_requests[u][k] < WINDOW
    /\ user_requests[u][k] <= LastCheck(u)

\* C14 witness: time has advanced since a user's latest check and the list
\* holds a timestamp 60 seconds old or older.
C14_Witness ==
  \E u \in Users : \E k \in 1..Len(user_requests[u]) :
    /\ clock - user_requests[u][k] >= WINDOW
    /\ LastCheck(u) < clock

\* C15: every list is in non-decreasing order and holds at most RATE_LIMIT
\* timestamps.
C15_SortedAndBounded ==
  \A u \in Users :
    /\ Len(user_requests[u]) <= RATE_LIMIT
    /\ \A k \in 1..Len(user_requests[u]) : \A m \in 1..Len(user_requests[u]) :
         k <= m => user_requests[u][k] <= user_requests[u][m]

\* C15 witness: right after a rejected check the list is full and holds
\* timestamps of different instants.
C15_Witness ==
  /\ n >= 1
  /\ chk[n] = [verdict |-> "reject", at |-> clock]
  /\ Len(user_requests[user[n]]) = RATE_LIMIT
  /\ user_requests[user[n]][1] < user_requests[user[n]][RATE_LIMIT]

\* C16: a check of user u leaves the lists of all other users unchanged,
\* and its verdict is decided by u's own earlier admissions alone.
C16_OnlyOwnEntry ==
  [][IsCheck =>
       LET u == user'[n']
           own == {j \in 1..n : /\ user[j] = u
                                /\ chk[j].verdict = "admit"
                                /\ chk[j].at > clock - WINDOW}
       IN  /\ \A v \in Users \ {u} : user_requests'[v] = user_requests[v]
           /\ \A k \in 1..Len(user_requests'[u]) :
                \E j \in own \cup {n'} : chk'[j].at = user_requests'[u][k]
           /\ chk'[n'].verdict = "admit" <=> Cardinality(own) < RATE_LIMIT]_vars

\* C16 witness: one user is at the limit and a check of the other user at
\* the same instant is admitted.
C16_Witness ==
  \E u \in Users : \E v \in Users \ {u} :
    /\ n = RATE_LIMIT + 1
    /\ Len(user_requests[u]) = RATE_LIMIT
    /\ user_requests[u][RATE_LIMIT] = clock
    /\ user[n] = v
    /\ chk[n] = [verdict |-> "admit", at |-> clock]
    /\ user_requests[v] = <<clock>>

\* ---------------------------------------- claims on the request lifecycle
Exited == {"done", "raised"}

\* C17: an invocation leaves get_llm_response once; its caller is given
\* something only in that step, and the late result of a call abandoned at
\* the deadline changes nothing the caller was given.
C17_OneOutcome ==
  [][/\ \A i \in Inv : pc[i] \in Exited => pc'[i] = pc[i]
     /\ returned' # returned =>
          \E i \in Inv : pc[i] \notin Exited /\ pc'[i] \in Exited
     /\ abandoned' < abandoned => returned' = returned /\ pc' = pc]_vars

\* C17 witness: the latest exit was TimedOut and the late result of every
\* abandoned call has arrived since.
C17_Witness ==
  /\ returned.ev.kind = "deadline"
  /\ returned.out = Return("TimedOut", TimeoutText)
  /\ abandoned = 0

\* C18: an admitted invocation has started exactly one upstream call, also
\* after it has ended in a timeout or a failure.
C18_SingleAttempt ==
  \A i \in Inv : chk[i].verdict = "admit" => calls[i] = 1

\* C18 witness: the only invocation ended in a timeout or an upstream
\* failure and has started one call.
C18_Witness ==
  /\ n = 1
  /\ pc[1] = "done"
  /\ returned.ev.kind \in {"deadline", "fault"}
  /\ calls[1] = 1

\* C19: the timestamp of an admitted invocation is in the list when its
\* upstream call starts and still there, with the whole list unchanged,
\* when the invocation leaves, whatever the outcome.
C19_AdmissionKept ==
  [][\A i \in Inv :
       /\ (pc[i] = "idle" /\ pc'[i] = "upstream") =>
            /\ Len(user_requests'[user'[i]]) >= 1
            /\ user_requests'[user'[i]][Len(user_requests'[user'[i]])] = clock
       /\ (pc[i] = "upstream" /\ pc'[i] # "upstream") =>
            /\ user_requests' = user_requests
            /\ \E k \in 1..Len(user_requests'[user[i]]) :
                 user_requests'[user[i]][k] = chk[i].at]_vars

\* C19 witness: RATE_LIMIT invocations of a user were admitted, all have
\* left, the latest in a timeout or an upstream failure, and the list
\* still holds RATE_LIMIT timestamps.
C19_Witness ==
  \E u \in Users :
    /\ n = RATE_LIMIT
    /\ \A i \in 1..RATE_LIMIT : user[i] = u /\ pc[i] = "done"
    /\ returned.ev.kind \in {"deadline", "fault"}
    /\ returned.out.tag \in {"TimedOut", "UpstreamError"}
    /\ Len(user_requests[u]) = RATE_LIMIT

\* The invocations of user u whose upstream call is in flight.
InFlight(u) == {i \in Inv : user[i] = u /\ pc[i] = "upstream"}

\* C20: at most RATE_LIMIT upstream calls of one user are in flight at the
\* same time.
C20_InFlightBounded ==
  \A u \in Users : Cardinality(InFlight(u)) <= RATE_LIMIT

\* C20 witness: RATE_LIMIT calls of one user, started at different
\* instants, are in flight at once.
C20_Witness ==
  \E u \in Users :
    /\ Cardinality(InFlight(u)) = RATE_LIMIT
    /\ \E i \in InFlight(u) : \E j \in InFlight(u) : chk[i].at < chk[j].at

====
